---- MODULE Spec2Model ----
(***************************************************************************)
(* Model of the fabrication billing service (app.py, models.py).           *)
(*                                                                         *)
(* The Bill table is a set of rows.  A row carries bill_number,            *)
(* customer_name, subtotal, total, paid_amount, payment_status and the     *)
(* ordered BillItem rows it owns (relationship Bill.items, cascade         *)
(* delete: the items leave the store with their row).  phone_number and    *)
(* date are copied and kept exactly as customer_name is and are            *)
(* represented by it.  Amounts are integers.  The directory pdfs/ is the   *)
(* set of bill numbers that have a rendered file.  The wall clock is       *)
(* counted in ticks of 1/TicksPerSecond second.  resp is the answer to    *)
(* the request handled last: the route and the HTTP status.  The file      *)
(* name download_pdf offers and the HTML view_bills renders are read-only  *)
(* output and are left out of the state.                                   *)
(***************************************************************************)
EXTENDS Integers, Sequences, FiniteSets

VARIABLES bills, pdfs, now, resp

vars == <<bills, pdfs, now, resp>>

\* ---- bounds ----
TicksPerSecond == 2
MaxTime == 4
MaxAmount == 1
MaxItems == 1

\* ---- request inputs ----
Statuses == {"pending", "partial", "paid"}

Customers == {"cust"}

\* One catalogue line: quantity 2 at rate 1, amount 2.
Item == [description |-> <<"rod">>, quantity |-> 2, rate |-> 1, amount |-> 2]

ItemLists == UNION {[1..n -> {Item}] : n \in 1..MaxItems}

RECURSIVE SumAmount(_)
SumAmount(its) == IF its = <<>> THEN 0 ELSE Head(its).amount + SumAmount(Tail(its))

OptionalKeys == {"paidAmount", "paymentStatus"}

\* JSON bodies of POST /generate_bill.  optional is the set of optional keys
\* the body carries; a key that is not carried has no value (0 and "pending"
\* stand in for it and are never read).  subtotal is the sum the client
\* computed; total, paidAmount and paymentStatus are whatever it sends.
Bodies ==
    { [customerName |-> c, items |-> its, subtotal |-> SumAmount(its), total |-> t,
       optional |-> o,
       paidAmount |-> IF "paidAmount" \in o THEN p ELSE 0,
       paymentStatus |-> IF "paymentStatus" \in o THEN s ELSE "pending"] :
         c \in Customers, its \in ItemLists, t \in 1..MaxAmount, o \in SUBSET OptionalKeys,
         p \in {0, MaxAmount + 1}, s \in {"pending", "paid"} }

\* bill numbers the clock can produce, and one that never exists
BillNumber(t) == t \div TicksPerSecond

NoSuchBill == BillNumber(MaxTime) + 1

IdInputs == 0..NoSuchBill

PaidInputs == 0..(MaxAmount + 1)

StatusArgs == {"", "paid", "PAID", "Pending", "partial"}

\* ---- helpers ----
Response(op, status) == [op |-> op, status |-> status]

\* dict.get(key, default)
Get(body, key, value, default) == IF key \in body.optional THEN value ELSE default

\* Bill.query.filter_by(bill_number=bill_id)
Lookup(id) == {b \in bills : b.bill_number = id}

\* unique=True on Bill.bill_number: the commit of row b is refused
UniqueViolation_unchecked(b) == FALSE

UniqueViolation(b) == \E c \in bills : c.bill_number = b.bill_number

\* Bill.pending_amount
pending_amount(b) == b.total - b.paid_amount

\* str.lower() on the status query argument
Lower(s) ==
    CASE s = "PAID" -> "paid"
      [] s = "Pending" -> "pending"
      [] OTHER -> s

\* the rows GET /bills renders
ViewBills(status) ==
    IF status # "" THEN {b \in bills : b.payment_status = Lower(status)} ELSE bills

\* generate_pdf: writes pdfs/<bill_number>.pdf
GeneratePdf(files, b) == files \cup {b.bill_number}

\* ---- POST /generate_bill ----
NewBill_paid_in_full(body, num) ==
    [bill_number |-> num,
     customer_name |-> body.customerName,
     subtotal |-> body.subtotal,
     total |-> body.total,
     paid_amount |-> Get(body, "paidAmount", body.paidAmount, body.total),
     payment_status |-> Get(body, "paymentStatus", body.paymentStatus, "pending"),
     items |-> body.items]

NewBill(body, num) ==
    [bill_number |-> num,
     customer_name |-> body.customerName,
     subtotal |-> body.subtotal,
     total |-> body.total,
     paid_amount |-> Get(body, "paidAmount", body.paidAmount, 0),
     payment_status |-> Get(body, "paymentStatus", body.paymentStatus, "pending"),
     items |-> body.items]

generate_bill(body) ==
    LET bill == NewBill(body, BillNumber(now)) IN
    /\ IF UniqueViolation(bill)
       THEN /\ resp' = Response("generate_bill", 500)
            /\ UNCHANGED <<bills, pdfs>>
       ELSE /\ bills' = bills \cup {bill}
            /\ pdfs' = GeneratePdf(pdfs, bill)
            /\ resp' = Response("generate_bill", 200)
    /\ UNCHANGED now

\* ---- POST /merge_bills ----
RECURSIVE SumField(_, _)
SumField(bs, f) == IF bs = <<>> THEN 0 ELSE Head(bs)[f] + SumField(Tail(bs), f)

\* the items of one source bill, each re-tagged with its bill number
Retagged(b) ==
    [i \in 1..Len(b.items) |->
        [description |-> Append(b.items[i].description, b.bill_number),
         quantity |-> b.items[i].quantity,
         rate |-> b.items[i].rate,
         amount |-> b.items[i].amount]]

RECURSIVE MergedItems(_)
MergedItems(bs) == IF bs = <<>> THEN <<>> ELSE Retagged(Head(bs)) \o MergedItems(Tail(bs))

MergedBill_first_payment(bs, num) ==
    [bill_number |-> num,
     customer_name |-> bs[1].customer_name,
     subtotal |-> SumField(bs, "subtotal"),
     total |-> SumField(bs, "total"),
     paid_amount |-> bs[1].paid_amount,
     payment_status |-> "pending",
     items |-> MergedItems(bs)]

MergedBill(bs, num) ==
    [bill_number |-> num,
     customer_name |-> bs[1].customer_name,
     subtotal |-> SumField(bs, "subtotal"),
     total |-> SumField(bs, "total"),
     paid_amount |-> SumField(bs, "paid_amount"),
     payment_status |-> "pending",
     items |-> MergedItems(bs)]

\* Bill.query.filter(Bill.bill_number.in_(bill_ids))
Matched(ids) == {b \in bills : b.bill_number \in ids}

\* .all() without ORDER BY: the rows come in an order the store chooses
Orderings(S) ==
    {bs \in [1..Cardinality(S) -> S] : \A i, j \in 1..Cardinality(S) : bs[i] = bs[j] => i = j}

\* bs: the rows of Matched(ids) in the order the store returns them
merge_bills(ids, bs) ==
    /\ IF bs = <<>>
       THEN /\ resp' = Response("merge_bills", 404)
            /\ UNCHANGED <<bills, pdfs>>
       ELSE LET merged_bill == MergedBill(bs, BillNumber(now)) IN
            IF UniqueViolation(merged_bill)
            THEN /\ resp' = Response("merge_bills", 500)
                 /\ UNCHANGED <<bills, pdfs>>
            ELSE /\ bills' = bills \cup {merged_bill}
                 /\ pdfs' = GeneratePdf(pdfs, merged_bill)
                 /\ resp' = Response("merge_bills", 200)
    /\ UNCHANGED now

\* ---- POST /update_payment/<bill_id> ----
PaymentRejected_at_total(bill, new_paid_amount) == new_paid_amount >= bill.total

PaymentRejected(bill, new_paid_amount) == new_paid_amount > bill.total

UpdatedBill_total(bill, new_paid_amount) ==
    [bill EXCEPT !.paid_amount = new_paid_amount,
                 !.total = new_paid_amount,
                 !.payment_status = IF new_paid_amount >= bill.total THEN "paid" ELSE "partial"]

UpdatedBill(bill, new_paid_amount) ==
    [bill EXCEPT !.paid_amount = new_paid_amount,
                 !.payment_status = IF new_paid_amount >= bill.total THEN "paid" ELSE "partial"]

update_payment(bill_id, paid) ==
    /\ IF Lookup(bill_id) = {}
       THEN /\ resp' = Response("update_payment", 404)
            /\ UNCHANGED bills
       ELSE \E bill \in Lookup(bill_id) :
              IF PaymentRejected(bill, paid)
              THEN /\ resp' = Response("update_payment", 400)
                   /\ UNCHANGED bills
              ELSE /\ bills' = (bills \ {bill}) \cup {UpdatedBill(bill, paid)}
                   /\ resp' = Response("update_payment", 200)
    /\ UNCHANGED <<pdfs, now>>

\* ---- DELETE /delete_bill/<bill_id> ----
DeleteRefused_pending_only(bill) == bill.payment_status = "pending"

DeleteRefused(bill) == bill.payment_status # "paid"

delete_bill(bill_id) ==
    /\ IF Lookup(bill_id) = {}
       THEN /\ resp' = Response("delete_bill", 404)
            /\ UNCHANGED <<bills, pdfs>>
       ELSE \E bill \in Lookup(bill_id) :
              IF DeleteRefused(bill)
              THEN /\ resp' = Response("delete_bill", 403)
                   /\ UNCHANGED <<bills, pdfs>>
              ELSE /\ pdfs' = pdfs \ {bill.bill_number}
                   /\ bills' = bills \ {bill}
                   /\ resp' = Response("delete_bill", 200)
    /\ UNCHANGED now

\* ---- GET /download_pdf/<bill_id> ----
download_pdf(bill_id) ==
    /\ IF Lookup(bill_id) = {}
       THEN resp' = Response("download_pdf", 404)
       ELSE \E bill \in Lookup(bill_id) :
              IF bill.bill_number \in pdfs
              THEN resp' = Response("download_pdf", 200)
              ELSE resp' = Response("download_pdf", 404)
    /\ UNCHANGED <<bills, pdfs, now>>

\* ---- GET /bills ----
view_bills(status) ==
    /\ ViewBills(status) \subseteq bills
    /\ resp' = Response("view_bills", 200)
    /\ UNCHANGED <<bills, pdfs, now>>

\* ---- the clock ----
Tick ==
    /\ now < MaxTime
    /\ now' = now + 1
    /\ UNCHANGED <<bills, pdfs, resp>>

Init ==
    /\ bills = {}
    /\ pdfs = {}
    /\ now = 0
    /\ resp = Response("index", 200)

GenerateBill == \E body \in Bodies : generate_bill(body)

MergeBills == \E ids \in SUBSET IdInputs : \E bs \in Orderings(Matched(ids)) : merge_bills(ids, bs)

UpdatePayment == \E id \in IdInputs, paid \in PaidInputs : update_payment(id, paid)

DeleteBill == \E id \in IdInputs : delete_bill(id)

DownloadPdf == \E id \in IdInputs : download_pdf(id)

ViewBillsPage == \E status \in StatusArgs : view_bills(status)

Next ==
    \/ GenerateBill
    \/ MergeBills
    \/ UpdatePayment
    \/ DeleteBill
    \/ DownloadPdf
    \/ ViewBillsPage
    \/ Tick

Spec == Init /\ [][Next]_vars

TypeOK ==
    /\ now \in 0..MaxTime
    /\ pdfs \subseteq IdInputs
    /\ \A b \in bills : b.payment_status \in Statuses

\* ---- vocabulary of the properties ----

\* the status the data model derives from (paid_amount, total)
StatusOf(paid, total) ==
    IF paid >= total THEN "paid" ELSE IF paid > 0 THEN "partial" ELSE "pending"

Tier(status) == CASE status = "pending" -> 0 [] status = "partial" -> 1 [] status = "paid" -> 2

\* the stored bill b has no row left after the step
Removed(b) == \A c \in bills' : c.bill_number # b.bill_number

\* a stored bill carries the number the clock gives now
NumberTaken == \E b \in bills : b.bill_number = BillNumber(now)

RECURSIVE SetSum(_, _)
SetSum(S, f) == IF S = {} THEN 0 ELSE LET b == CHOOSE x \in S : TRUE IN b[f] + SetSum(S \ {b}, f)

RECURSIVE SetItemCount(_)
SetItemCount(S) ==
    IF S = {} THEN 0 ELSE LET b == CHOOSE x \in S : TRUE IN Len(b.items) + SetItemCount(S \ {b})

RECURSIVE SourceItems(_)
SourceItems(bs) == IF bs = <<>> THEN <<>> ELSE Head(bs).items \o SourceItems(Tail(bs))

\* C1: every stored bill has paid_amount <= total.
PaidWithinTotal == \A b \in bills : b.paid_amount <= b.total

\* C2: every stored bill's payment_status is the status derived from
\* (paid_amount, total).
StatusIsDerived == \A b \in bills : b.payment_status = StatusOf(b.paid_amount, b.total)

\* C3: a successful update_payment never takes a bill to a lower status tier
\* (pending < partial < paid).
StatusNeverRegresses ==
    [][(resp'.op = "update_payment" /\ resp'.status = 200) =>
          \A b \in bills : \A c \in bills' :
             c.bill_number = b.bill_number =>
                Tier(c.payment_status) >= Tier(b.payment_status)]_vars

\* C4: a successful merge_bills adds exactly one bill; its subtotal, total
\* and paid_amount are the sums over the matched bills, it has as many items
\* as the matched bills together, and each item carries the quantity, rate
\* and amount of its source item.
MergeSums ==
    [][(resp'.op = "merge_bills" /\ resp'.status = 200) =>
          \A ids \in SUBSET IdInputs : \A bs \in Orderings(Matched(ids)) :
             merge_bills(ids, bs) =>
                \E m \in bills' \ bills :
                   /\ bills' = bills \cup {m}
                   /\ m.subtotal = SetSum(Matched(ids), "subtotal")
                   /\ m.total = SetSum(Matched(ids), "total")
                   /\ m.paid_amount = SetSum(Matched(ids), "paid_amount")
                   /\ Len(m.items) = SetItemCount(Matched(ids))
                   /\ \A k \in 1..Len(m.items) :
                         /\ m.items[k].quantity = SourceItems(bs)[k].quantity
                         /\ m.items[k].rate = SourceItems(bs)[k].rate
                         /\ m.items[k].amount = SourceItems(bs)[k].amount]_vars

\* C4 witness: a merge of two stored bills with different payments has been
\* answered 200 and the merged bill is stored next to them.
MergedTwoBills ==
    /\ resp = Response("merge_bills", 200)
    /\ \E m \in bills, a \in bills, b \in bills :
          /\ m.bill_number = BillNumber(now)
          /\ a.bill_number < b.bill_number /\ b.bill_number < m.bill_number
          /\ a.paid_amount # b.paid_amount
          /\ m.total = a.total + b.total
          /\ m.paid_amount = a.paid_amount + b.paid_amount
          /\ Len(m.items) = Len(a.items) + Len(b.items)
          /\ m.items[1].description = Append(a.items[1].description, a.bill_number)

\* C5: update_payment on a stored bill with paid_amount > total answers 400
\* and changes no bill; with paid_amount <= total the bill's paid_amount
\* becomes the requested value.
PaymentUpdateRule ==
    [][resp'.op = "update_payment" =>
          \A id \in IdInputs, paid \in PaidInputs : \A bill \in Lookup(id) :
             update_payment(id, paid) =>
                IF paid > bill.total
                THEN resp'.status = 400 /\ bills' = bills /\ pdfs' = pdfs
                ELSE /\ resp'.status = 200
                     /\ \A c \in bills' : c.bill_number = id => c.paid_amount = paid
                     /\ \E c \in bills' : c.bill_number = id]_vars

\* C5 witness: an update above the total has been answered 400.
PaymentRefused ==
    /\ resp = Response("update_payment", 400)
    /\ \E b \in bills : b.total < MaxAmount + 1

\* C6: delete_bill on a stored bill whose payment_status is not 'paid'
\* answers 403 and leaves bills, items and PDF files in place; a bill leaves
\* the store only if its payment_status is 'paid'.
DeleteRule ==
    [][/\ resp'.op = "delete_bill" =>
             \A id \in IdInputs : \A bill \in Lookup(id) :
                (bill.payment_status # "paid" /\ delete_bill(id)) =>
                   resp'.status = 403 /\ bills' = bills /\ pdfs' = pdfs
       /\ \A b \in bills : Removed(b) => b.payment_status = "paid"]_vars

\* C6 witness: a delete of an unpaid bill has been answered 403 and the bill
\* and its PDF file are still there.
DeleteRefusedSeen ==
    /\ resp = Response("delete_bill", 403)
    /\ \E b \in bills : b.payment_status # "paid" /\ b.bill_number \in pdfs

\* C7: a bill leaves the store only in a state where its paid_amount >= total,
\* and then its row, its items and its PDF file are gone.
DeletedOnlyWhenFullyPaid ==
    [][\A b \in bills :
         Removed(b) => b.paid_amount >= b.total /\ b.bill_number \notin pdfs']_vars

\* C8: generate_bill, merge_bills, download_pdf, view_bills and every request
\* answered with an error leave every stored bill (fields and items) as it
\* was; update_payment changes nothing but paid_amount and payment_status of
\* the addressed bill.
FrameRule ==
    [][/\ (\/ resp'.op \in {"generate_bill", "merge_bills", "download_pdf", "view_bills"}
           \/ resp'.status # 200)
            => bills \subseteq bills'
       /\ resp'.op = "update_payment" =>
             \A id \in IdInputs, paid \in PaidInputs :
                update_payment(id, paid) =>
                   \A b \in bills :
                      \/ b \in bills'
                      \/ /\ b.bill_number = id
                         /\ \E c \in bills' :
                               /\ c = [b EXCEPT !.paid_amount = c.paid_amount,
                                                !.payment_status = c.payment_status]
                               /\ bills' = (bills \ {b}) \cup {c}]_vars

\* C8 witness: a merge has been answered 200 and a bill it took items from
\* is still stored, with a payment an earlier update recorded.
FrameSeen ==
    /\ resp = Response("merge_bills", 200)
    /\ \E m \in bills, a \in bills :
          /\ m.bill_number = BillNumber(now) /\ a.bill_number # m.bill_number
          /\ m.items[1].description = Append(a.items[1].description, a.bill_number)
          /\ a.payment_status = "partial"

\* C9: generate_bill with a body without paidAmount and paymentStatus stores
\* a bill with paid_amount 0, payment_status 'pending' and pending_amount =
\* total; every stored bill has pending_amount = total - paid_amount.
GenerateDefaults ==
    [][/\ (resp'.op = "generate_bill" /\ resp'.status = 200) =>
             \A body \in Bodies :
                (body.optional = {} /\ generate_bill(body)) =>
                   \E b \in bills' \ bills :
                      /\ b.bill_number = BillNumber(now)
                      /\ b.paid_amount = 0
                      /\ b.payment_status = "pending"
                      /\ pending_amount(b) = body.total
       /\ \A b \in bills' : pending_amount(b) = b.total - b.paid_amount]_vars

\* C9 witness: the bill of a body without the optional keys has just been
\* stored: nothing paid, pending, pending_amount = total.
GeneratedDefault ==
    /\ resp = Response("generate_bill", 200)
    /\ \E b \in bills :
          /\ b.bill_number = BillNumber(now)
          /\ b.total = MaxAmount /\ b.paid_amount = 0 /\ b.payment_status = "pending"
          /\ pending_amount(b) = MaxAmount

\* the step handles a request to create a bill
CreateRequest ==
    \/ resp'.op = "generate_bill" /\ GenerateBill
    \/ resp'.op = "merge_bills" /\ MergeBills

\* stored bills have pairwise different bill numbers
UniqueNumbers == \A b \in bills, c \in bills : b.bill_number = c.bill_number => b = c

\* C10 as stated: bill numbers are unique; every generate_bill or merge_bills
\* request handled in the second of a stored bill's number answers 500 and
\* adds no bill; one handled in another second answers 200 with a new number.
UniqueOrRefused ==
    [][/\ UniqueNumbers'
       /\ (NumberTaken /\ CreateRequest) =>
             resp'.status = 500 /\ bills' = bills
       /\ (~NumberTaken /\ CreateRequest) =>
             /\ resp'.status = 200
             /\ \E m \in bills' \ bills :
                   /\ bills' = bills \cup {m}
                   /\ m.bill_number = BillNumber(now)
                   /\ \A b \in bills : b.bill_number # m.bill_number]_vars

\* a merge_bills request whose identifiers match at least one stored bill
MergeOfMatched ==
    \E ids \in SUBSET IdInputs : \E bs \in Orderings(Matched(ids)) :
        bs # <<>> /\ merge_bills(ids, bs)

\* the step handles generate_bill, or a merge_bills that matches a bill
CreateOfMatched ==
    \/ resp'.op = "generate_bill" /\ GenerateBill
    \/ resp'.op = "merge_bills" /\ MergeOfMatched

\* C10 amended: bill numbers are unique; a generate_bill request, or a
\* merge_bills request that matches at least one bill, handled in the second
\* of a stored bill's number answers 500 and adds no bill; one handled in
\* another second answers 200 and adds one bill with a new number.
UniqueOrRefusedWhenMatched ==
    [][/\ UniqueNumbers'
       /\ (NumberTaken /\ CreateOfMatched) =>
             resp'.status = 500 /\ bills' = bills
       /\ (~NumberTaken /\ CreateOfMatched) =>
             /\ resp'.status = 200
             /\ \E m \in bills' \ bills :
                   /\ bills' = bills \cup {m}
                   /\ m.bill_number = BillNumber(now)
                   /\ \A b \in bills : b.bill_number # m.bill_number]_vars

\* C10 witness: a request to create a bill was handled in the second, but
\* not at the instant, of a stored bill's creation and answered 500.
SameSecondRefused ==
    /\ resp.op \in {"generate_bill", "merge_bills"}
    /\ resp.status = 500
    /\ now % TicksPerSecond # 0
    /\ NumberTaken
====
